---- MODULE Spec2Model ----
(***************************************************************************)
(* Operator-conformance test harness of the nvFuser python frontend:       *)
(* python_tests/pytest_ops.py (execution adapter, snippets, test loops)    *)
(* and python_tests/pytest_input_generators.py (sample generators).        *)
(***************************************************************************)
EXTENDS Integers, Sequences, FiniteSets, TLC

(***************************************************************************)
(* Bounds of the model.                                                    *)
(***************************************************************************)
\* longest positional argument list of a sample
MaxArgs == 2

(***************************************************************************)
(* Positional arguments of a sample.  Every argument is a distinct value   *)
(* so that order, omission and duplication are observable; its python type *)
(* is what the adapter inspects.                                           *)
(***************************************************************************)
Tensors == {"t1", "t2"}
Lists == {"list1"}
Tuples == {"tuple1"}
Scalars == {"int1", "none"}
ArgValues == Tensors \cup Lists \cup Tuples \cup Scalars

\* type(a) is torch.Tensor
IsTensor(a) == a \in Tensors
\* type(a) is list or type(a) is tuple
IsListOrTuple(a) == a \in Lists \cup Tuples

RECURSIVE SeqsUpTo(_, _)
SeqsUpTo(S, n) ==
    IF n = 0 THEN {<<>>}
    ELSE LET shorter == SeqsUpTo(S, n - 1)
         IN  shorter \cup {Append(s, x) : s \in {t \in shorter : Len(t) = n - 1}, x \in S}

ArgLists == SeqsUpTo(ArgValues, MaxArgs)

\* opinfo.symbolic_parameter_list: None, or a list of booleans, one per
\* positional argument (is_list tells the two apart; None carries no items)
None == [is_list |-> FALSE, items |-> <<>>]
ListOf(items) == [is_list |-> TRUE, items |-> items]
SymbolicParameterLists == {None} \cup {ListOf(l) : l \in SeqsUpTo(BOOLEAN, MaxArgs)}

Min(x, y) == IF x < y THEN x ELSE y
Max(x, y) == IF x > y THEN x ELSE y

(***************************************************************************)
(* FusionDefinition as the adapter sees it: a definition-time call         *)
(* (from_pytorch, define_vector, define_scalar, an operator) is accepted   *)
(* while the definition is open and rejected once it has completed.        *)
(***************************************************************************)
\* fd is "defining" (open) or "closed" (completed)
FdAccepts(fd) == fd = "defining"

(***************************************************************************)
(* Results of a call: status "ok" or the python exception raised.          *)
(***************************************************************************)
NotCalled == [status |-> "NotCalled", value |-> <<>>]

\* variant: only a list (not a tuple) becomes a vector placeholder
PlaceholderOpListOnly(a) ==
    IF IsTensor(a) THEN "from_pytorch"
    ELSE IF a \in Lists THEN "define_vector"
    ELSE "define_scalar"

\* the fd method the adapter calls for a symbolic argument
PlaceholderOp(a) ==
    IF IsTensor(a) THEN "from_pytorch"
    ELSE IF IsListOrTuple(a) THEN "define_vector"
    ELSE "define_scalar"

\* the for loop of parse_inputs_fusion_definition, from pair i of the zip on;
\* nvf is nvf_args so far.  An exception leaves the loop at once.
RECURSIVE ParseInputsLoop(_, _, _, _, _)
ParseInputsLoop(spl, a, fd, i, nvf) ==
    IF i > Min(Len(spl.items), Len(a))
    THEN [status |-> "ok", value |-> nvf]
    ELSE IF spl.items[i]
         THEN IF FdAccepts(fd)
              THEN ParseInputsLoop(spl, a, fd, i + 1,
                       Append(nvf, [op |-> PlaceholderOp(a[i]), arg |-> a[i]]))
              ELSE [status |-> "RuntimeError", value |-> nvf]
         ELSE IF IsTensor(a[i])
              THEN [status |-> "AssertionError", value |-> nvf]
              ELSE ParseInputsLoop(spl, a, fd, i + 1,
                       Append(nvf, [op |-> "concrete", arg |-> a[i]]))

\* [True] * n
AllSymbolic(n) == ListOf([i \in 1..n |-> TRUE])

\* opinfo.symbolic_parameter_list after lines 29-30
DefaultedList(spl, a) == IF spl = None THEN AllSymbolic(Len(a)) ELSE spl

\* the placeholders a list of adapted arguments holds
Placeholders(nvf) == SelectSeq(nvf, LAMBDA e : e.op # "concrete")

\* variant: a list of the wrong length is replaced by the default instead of
\* failing the length assertion
parse_inputs_redefaulting(fd, spl, a) ==
    IF Len(a) = 0
    THEN [status |-> "ok", nvf_args |-> <<>>, created |-> <<>>, spl |-> spl]
    ELSE LET spl1 == IF spl = None \/ Len(spl.items) # Len(a)
                     THEN AllSymbolic(Len(a)) ELSE spl
             r == ParseInputsLoop(spl1, a, fd, 1, <<>>)
         IN  [status |-> r.status,
              nvf_args |-> IF r.status = "ok" THEN r.value ELSE <<>>,
              created |-> Placeholders(r.value),
              spl |-> spl1]

\* parse_inputs_fusion_definition(fd, opinfo, *args): the outcome, the list
\* returned (nvf_args), the placeholders created in fd and the descriptor's
\* symbolic_parameter_list after the call
parse_inputs_fusion_definition(fd, spl, a) ==
    IF Len(a) = 0
    THEN [status |-> "ok", nvf_args |-> <<>>, created |-> <<>>, spl |-> spl]
    ELSE LET spl1 == DefaultedList(spl, a)
         IN  IF Len(spl1.items) # Len(a)
             THEN [status |-> "AssertionError", nvf_args |-> <<>>,
                   created |-> <<>>, spl |-> spl1]
             ELSE LET r == ParseInputsLoop(spl1, a, fd, 1, <<>>)
                  IN  [status |-> r.status,
                       nvf_args |-> IF r.status = "ok" THEN r.value ELSE <<>>,
                       created |-> Placeholders(r.value),
                       spl |-> spl1]

\* the comprehension of parse_args_fusion_execution over zip(list, args)
RECURSIVE ExecutionLoop(_, _, _)
ExecutionLoop(spl, a, i) ==
    IF i > Min(Len(spl.items), Len(a)) THEN <<>>
    ELSE (IF spl.items[i] THEN <<a[i]>> ELSE <<>>) \o ExecutionLoop(spl, a, i + 1)

\* parse_args_fusion_execution(fd, opinfo, *args): zip(None, args) raises
\* TypeError ('NoneType' object is not iterable)
parse_args_fusion_execution(spl, a) ==
    IF spl = None
    THEN [status |-> "TypeError", value |-> <<>>]
    ELSE [status |-> "ok", value |-> ExecutionLoop(spl, a, 1)]

(***************************************************************************)
(* Sample generators (pytest_input_generators.py).                         *)
(***************************************************************************)
\* largest magnitude of an operator's domain bound drawn by the model
MaxDomain == 10
\* the clamp of elementwise_unary_generator: max(-9, low), min(9, high)
ClampLow == -9
ClampHigh == 9

\* an optional number: None, or a value
NoNumber == [is_num |-> FALSE, v |-> 0]
Num(v) == [is_num |-> TRUE, v |-> v]
DomainBounds == {NoNumber} \cup {Num(v) : v \in -MaxDomain..MaxDomain}
\* op.domain: Domain(low, high)
Domains == [low : DomainBounds, high : DomainBounds]

\* variant: the lower bound is passed through unclamped
ClampedLowUnclamped(d) == d.low

\* low = None if op.domain.low is None else max(-9, op.domain.low)
ClampedLow(d) == IF ~d.low.is_num THEN NoNumber ELSE Num(Max(ClampLow, d.low.v))
\* high = None if op.domain.high is None else min(9, op.domain.high)
ClampedHigh(d) == IF ~d.high.is_num THEN NoNumber ELSE Num(Min(ClampHigh, d.high.v))

\* make_arg = partial(make_tensor, low=low, high=high, ...): the tensor the
\* factory is asked for
make_arg(d, shape, noncontiguous) ==
    [shape |-> shape, noncontiguous |-> noncontiguous,
     low |-> ClampedLow(d), high |-> ClampedHigh(d)]

shapes == << <<>>, <<11>>, <<4, 4>>, <<1024, 1024>>, <<64, 64, 64>> >>

\* shape, strides, offset
strided_cases ==
    << [shape |-> <<5, 6, 2>>, strides |-> <<1, 1, 7>>, offset |-> 2],
       [shape |-> <<5, 5, 4>>, strides |-> <<1, 1, 7>>, offset |-> 2],
       [shape |-> <<5, 5, 2>>, strides |-> <<4, 5, 7>>, offset |-> 3],
       [shape |-> <<5, 5, 2>>, strides |-> <<5, 5, 7>>, offset |-> 3],
       [shape |-> <<5, 5, 2>>, strides |-> <<5, 5, 5>>, offset |-> 3],
       [shape |-> <<9, 5, 2>>, strides |-> <<0, 1, 7>>, offset |-> 3] >>

NotStrided == [shape |-> <<>>, strides |-> <<>>, offset |-> 0]

\* the k-th sample elementwise_unary_generator yields: the typical inputs,
\* the noncontiguous inputs, then the strided views of a 500-element tensor
elementwise_unary_generator(d, k) ==
    IF k <= Len(shapes)
    THEN [tensor |-> make_arg(d, shapes[k], FALSE), view |-> NotStrided]
    ELSE IF k <= 2 * Len(shapes)
    THEN [tensor |-> make_arg(d, shapes[k - Len(shapes)], TRUE), view |-> NotStrided]
    ELSE [tensor |-> make_arg(d, <<500>>, FALSE),
          view |-> strided_cases[k - 2 * Len(shapes)]]

ElementwiseUnaryCount == 2 * Len(shapes) + Len(strided_cases)

\* an optional tuple of axes: None, or a tuple
NoDim == [is_tuple |-> FALSE, axes |-> <<>>]
Dim(axes) == [is_tuple |-> TRUE, axes |-> axes]

\* shape, dim, keepdim (dtype is None in every case)
reduction_cases ==
    << [shape |-> <<4, 4>>, dim |-> NoDim, keepdim |-> FALSE],
       [shape |-> <<5>>, dim |-> NoDim, keepdim |-> TRUE],
       [shape |-> <<5>>, dim |-> Dim(<<0>>), keepdim |-> FALSE],
       [shape |-> <<8, 1, 6>>, dim |-> Dim(<<1>>), keepdim |-> TRUE],
       [shape |-> <<8, 7, 5, 1>>, dim |-> Dim(<<0, 1>>), keepdim |-> TRUE],
       [shape |-> <<8, 7, 5, 1>>, dim |-> Dim(<<1, 3>>), keepdim |-> FALSE] >>

\* the tensor make_arg(shape) of reduction_generator: values in [-2, 3); id
\* names the tensor object
ReductionTensor(k) == [id |-> k, shape |-> reduction_cases[k].shape, low |-> -2, high |-> 3]

\* reduction_generator: SampleInput(make_arg(shape), dim, keepdim, dtype=dtype)
reduction_generator ==
    [k \in 1..Len(reduction_cases) |->
        [a |-> ReductionTensor(k), dim |-> reduction_cases[k].dim,
         keepdim |-> reduction_cases[k].keepdim]]

correction == <<0, 1>>

\* variant: product(samples, correction), the samples in the outer loop
ProductInnerFirst(A, B) ==
    [k \in 1..(Len(A) * Len(B)) |->
        <<A[((k - 1) % Len(A)) + 1], B[((k - 1) \div Len(A)) + 1]>>]

\* itertools.product(A, B): every pair, the first factor in the outer loop
Product(A, B) ==
    [k \in 1..(Len(A) * Len(B)) |->
        <<A[((k - 1) \div Len(B)) + 1], B[((k - 1) % Len(B)) + 1]>>]

\* tuple(range(n))
Range(n) == [i \in 1..n |-> i - 1]

\* dim = sample.args[1] if (len(sample.args) > 1 and sample.args[1])
\*       else tuple(range(a.ndim)): None and the empty tuple are falsy
VarMeanDim(sample) ==
    IF sample.dim.is_tuple /\ Len(sample.dim.axes) > 0
    THEN sample.dim.axes
    ELSE Range(Len(sample.a.shape))

\* the k-th sample var_mean_generator yields:
\* SampleInput(a, dim, correction=c, keepdim=keepdim)
var_mean_generator(k) ==
    LET pair == Product(correction, reduction_generator)[k]
        c == pair[1]
        sample == pair[2]
    IN  [a |-> sample.a, dim |-> VarMeanDim(sample),
         correction |-> c, keepdim |-> sample.keepdim]

VarMeanCount == Len(Product(correction, reduction_generator))

(***************************************************************************)
(* Exceptions and messages.  A message is its sequence of words; `in` on   *)
(* strings is containment of a contiguous run of words.                    *)
(***************************************************************************)
NoException == [raised |-> FALSE, type |-> "None", msg |-> <<>>]
Raise(type, msg) == [raised |-> TRUE, type |-> type, msg |-> msg]

\* "Attempting to add to a completed definition!"
CompletedDefinitionMessage ==
    <<"Attempting", "to", "add", "to", "a", "completed", "definition!">>
\* zip(None, ...): TypeError: 'NoneType' object is not iterable
NoneTypeMessage == <<"'NoneType'", "object", "is", "not", "iterable">>
\* [][0]: IndexError: list index out of range
IndexErrorMessage == <<"list", "index", "out", "of", "range">>
IncompatibleArgumentsMessage ==
    <<"var_mean():", "incompatible", "function", "arguments.">>
InvalidAxisMessage == <<"Reduction", "on", "invalid", "axis">>

\* sub in msg
Contains(msg, sub) ==
    \E i \in 0..Len(msg) :
        i + Len(sub) <= Len(msg) /\ SubSeq(msg, i + 1, i + Len(sub)) = sub

\* an optional string: None, or its words
NoString == [is_str |-> FALSE, words |-> <<>>]
Str(words) == [is_str |-> TRUE, words |-> words]

\* what the system under test does with one definition: nothing wrong, or an
\* exception raised while the definition is built or while it is executed
SutExceptions ==
    {Raise("TypeError", IncompatibleArgumentsMessage),
     Raise("RuntimeError", InvalidAxisMessage),
     Raise("NotImplementedError", InvalidAxisMessage)}
SutOutcomes ==
    {[stage |-> "none", exception |-> NoException]}
        \cup {[stage |-> st, exception |-> e] :
                 st \in {"definition", "execute"}, e \in SutExceptions}

\* the expected (type, substring) of an error sample
ExpectedTypes == {"RuntimeError", "TypeError"}
ExpectedStrings ==
    {NoString, Str(<<"incompatible", "function", "arguments.">>),
     Str(<<"incompatible", "arguments.">>), Str(<<"invalid", "axis">>)}

\* the class an exception class derives from
ExceptionBase(t) ==
    IF t = "NotImplementedError" THEN "RuntimeError" ELSE "Exception"
\* isinstance(an exception of class t, u)
IsInstance(t, u) ==
    \/ t = u
    \/ ExceptionBase(t) = u
    \/ ExceptionBase(ExceptionBase(t)) = u

(***************************************************************************)
(* Snippets (pytest_ops.py).                                               *)
(***************************************************************************)
\* the positional arguments of the samples the generators yield: none
\* (define_tensor), a tensor, a tensor with dim None and keepdim (reduction),
\* a tensor with axes (var_mean), a tensor with a float axis (reduction errors)
MaxSampleArgs == 3
SampleArgs ==
    {<<>>, <<"t1">>, <<"t1", "none", "int1">>, <<"t1", "tuple1">>, <<"t1", "int1">>}
SampleParameterLists ==
    {None} \cup {ListOf(l) : l \in SeqsUpTo(BOOLEAN, MaxSampleArgs)}

\* the contract of the descriptor with the samples its operator consumes
\* (the two assertions of parse_inputs_fusion_definition)
WellFormed(spl, a) ==
    \/ spl = None
    \/ Len(a) = 0
    \/ /\ Len(spl.items) = Len(a)
       /\ \A i \in 1..Len(a) : ~spl.items[i] => ~IsTensor(a[i])

\* fd after definition() has run and the definition was finalized
FdFinalized == "closed"

\* fusion_func(fd, nvf_op, *sample.args, **sample.kwargs) inside
\* `with FusionDefinition() as fd`: opinfo_fusion_func or input_fusion_func
FusionFunc(fusion_func, spl, a, sut) ==
    LET r == parse_inputs_fusion_definition("defining", spl, a)
    IN  [spl |-> r.spl,
         exception |->
            IF r.status # "ok" THEN Raise(r.status, <<>>)
            ELSE IF sut.stage = "definition" THEN sut.exception
            ELSE IF fusion_func = "input_fusion_func" /\ Len(r.nvf_args) = 0
                 THEN Raise("IndexError", IndexErrorMessage)
            ELSE NoException]

\* the try block of snippet_errors: the exception caught, if any
SnippetErrorsTry(fusion_func, spl, a, sut) ==
    LET b == FusionFunc(fusion_func, spl, a, sut)
        e == parse_args_fusion_execution(b.spl, a)
    IN  [spl |-> b.spl,
         exception |->
            IF b.exception.raised THEN b.exception
            ELSE IF e.status # "ok" THEN Raise(e.status, NoneTypeMessage)
            ELSE IF sut.stage = "execute" THEN sut.exception
            ELSE NoException]

\* variant: isinstance(exception, exception_type)
TypeMatchesIsInstance(exception_type, exception) ==
    IsInstance(exception.type, exception_type)

\* exception_type is type(exception)
TypeMatches(exception_type, exception) == exception_type = exception.type

\* the three assertions of snippet_errors
SnippetErrorsAsserts(exception, exception_type, exception_str) ==
    IF ~exception.raised THEN "Expected an exception"
    ELSE IF ~TypeMatches(exception_type, exception)
         THEN "Expected an exception with type"
    ELSE IF ~(~exception_str.is_str \/ Contains(exception.msg, exception_str.words))
         THEN "Failed to find correct expection error message"
    ELSE "passed"

\* snippet_errors(fusion_func, nvf_op, sample, exception_type, exception_str)
snippet_errors(fusion_func, spl, a, exception_type, exception_str, sut) ==
    LET t == SnippetErrorsTry(fusion_func, spl, a, sut)
    IN  [spl |-> t.spl, exception |-> t.exception,
         verdict |-> SnippetErrorsAsserts(t.exception, exception_type, exception_str)]

\* SchedError.schedule() on a finalized definition: translate the inputs,
\* then invoke the operator
Schedule(fd, spl, a) ==
    LET r == parse_inputs_fusion_definition(fd, spl, a)
    IN  [spl |-> r.spl,
         exception |->
            IF r.status = "RuntimeError"
            THEN Raise("RuntimeError", CompletedDefinitionMessage)
            ELSE IF r.status # "ok" THEN Raise(r.status, <<>>)
            ELSE IF ~FdAccepts(fd)
                 THEN Raise("RuntimeError", CompletedDefinitionMessage)
            ELSE NoException]

\* the try block of snippet_definition_op_in_schedule_error: the arguments
\* of fd.execute are evaluated before definition() and schedule() run
SchedErrorTry(spl, a) ==
    LET e == parse_args_fusion_execution(spl, a)
    IN  IF e.status # "ok"
        THEN [spl |-> spl, exception |-> Raise(e.status, NoneTypeMessage)]
        ELSE Schedule(FdFinalized, spl, a)

\* the two assertions of snippet_definition_op_in_schedule_error
SchedErrorAsserts(exception) ==
    IF ~exception.raised THEN "Expected an exception"
    ELSE IF ~Contains(exception.msg, CompletedDefinitionMessage)
         THEN "Failed to find correct expection error message"
    ELSE "passed"

\* snippet_definition_op_in_schedule_error(nvf_op, sample)
snippet_definition_op_in_schedule_error(spl, a) ==
    LET t == SchedErrorTry(spl, a)
    IN  [spl |-> t.spl, exception |-> t.exception,
         verdict |-> SchedErrorAsserts(t.exception)]

\* no snippet: snippet_consistency's None
NoSnippet == [fn |-> "None", fusion_func |-> "None"]

\* fusion_func = input_fusion_func if is_fusion_input_op else opinfo_fusion_func
SelectFusionFunc(is_fusion_input_op) ==
    IF is_fusion_input_op THEN "input_fusion_func" ELSE "opinfo_fusion_func"

\* snippet_consistency(reference_type, is_fusion_input_op)
snippet_consistency(reference_type, is_fusion_input_op) ==
    IF reference_type = "Pytorch"
    THEN [fn |-> "snippet_torch_consistency",
          fusion_func |-> SelectFusionFunc(is_fusion_input_op)]
    ELSE IF reference_type = "Jax"
    THEN [fn |-> "snippet_jax_consistency",
          fusion_func |-> SelectFusionFunc(is_fusion_input_op)]
    ELSE NoSnippet

(***************************************************************************)
(* Test functions: one loop over the samples of an (operator, dtype) pair. *)
(***************************************************************************)
\* most samples a generator yields for one pair
MaxSamples == 3

\* ReferenceType, with the tag of an operator that has no comparison snippet
ReferenceTypes == {"None", "Pytorch", "Jax"}

\* the registry: the fields of an OpInfo the test functions read (reference
\* and error_input_generator as "is not None")
OpInfos ==
    [reference : BOOLEAN, refernce_fn_type : ReferenceTypes,
     is_fusion_input_op : BOOLEAN, error_input_generator : BOOLEAN]

NoOp ==
    [reference |-> FALSE, refernce_fn_type |-> "None",
     is_fusion_input_op |-> FALSE, error_input_generator |-> FALSE]

\* the result of run_snippet: None, or the failure of a sample
NoResult == [is_none |-> TRUE, sample |-> 0]
Failure(i) == [is_none |-> FALSE, sample |-> i]

\* run_snippet(snippet, opinfo, dtype, *args) on sample i: the failure of the
\* snippet caught and returned, None when the snippet passes; a snippet that
\* is None cannot be called
run_snippet(snippet, i, passes) ==
    IF snippet = NoSnippet THEN Failure(i)
    ELSE IF passes THEN NoResult
    ELSE Failure(i)

\* the ops a test function is parametrized with
Selected(t, o) ==
    IF t = "test_errors" THEN o.error_input_generator
    ELSE IF t = "test_consistency" THEN o.reference
    ELSE TRUE

\* the snippet a test function hands to run_snippet
SnippetOf(t, o) ==
    IF t = "test_errors"
    THEN [fn |-> "snippet_errors", fusion_func |-> SelectFusionFunc(o.is_fusion_input_op)]
    ELSE IF t = "test_consistency"
    THEN snippet_consistency(o.refernce_fn_type, o.is_fusion_input_op)
    ELSE [fn |-> "snippet_definition_op_in_schedule_error", fusion_func |-> "None"]

\* variant: the loop goes on after a failure
LoopNeverReturnsEarly(result) == FALSE

\* if result is not None: return result
LoopReturns(result) == ~result.is_none

NotReturned == [done |-> FALSE, value |-> NoResult]

(***************************************************************************)
(* State.                                                                  *)
(***************************************************************************)
VARIABLES
    symbolic_parameter_list,  \* opinfo.symbolic_parameter_list
    args,                     \* sample.args of the sample at hand
    nvf_args,                 \* outcome of parse_inputs_fusion_definition on it
    fd_inputs,                \* placeholders created in the sample's fd
    exec_args,                \* outcome of parse_args_fusion_execution on it
    domain,                   \* op.domain of the operator samples are generated for
    eu_yielded,               \* samples drawn from elementwise_unary_generator
    eu_sample,                \* the sample it yielded last
    vm_yielded,               \* samples drawn from var_mean_generator, in order
    run,                      \* the last snippet call: inputs, exception, verdict
    test,                     \* the test function running, "none" before the first
    opinfo,                   \* the operator it was called with
    n_samples,                \* how many samples the operator's generator yields
    ran,                      \* the samples handed to run_snippet, in order
    results,                  \* what run_snippet returned for each of them
    snippet,                  \* the snippet handed to run_snippet last
    returned                  \* whether the test function returned, and what

adapterVars == <<symbolic_parameter_list, args, nvf_args, fd_inputs, exec_args>>
generatorVars == <<domain, eu_yielded, eu_sample, vm_yielded>>
snippetVars == <<run>>
harnessVars == <<test, opinfo, n_samples, ran, results, snippet, returned>>
vars == <<adapterVars, generatorVars, snippetVars, harnessVars>>

NoSample == [tensor |-> make_arg([low |-> NoNumber, high |-> NoNumber], <<>>, FALSE),
             view |-> NotStrided]

NoRun ==
    [snippet |-> "none", exception_type |-> "None", exception_str |-> NoString,
     exception |-> NoException, verdict |-> "none"]

AdapterIdle ==
    /\ symbolic_parameter_list = None
    /\ args = <<>>
    /\ nvf_args = NotCalled
    /\ fd_inputs = <<>>
    /\ exec_args = NotCalled

GeneratorsIdle ==
    /\ domain = [low |-> NoNumber, high |-> NoNumber]
    /\ eu_yielded = 0
    /\ eu_sample = NoSample
    /\ vm_yielded = <<>>

SnippetsIdle == run = NoRun

HarnessIdle ==
    /\ test = "none"
    /\ opinfo = NoOp
    /\ n_samples = 0
    /\ ran = <<>>
    /\ results = <<>>
    /\ snippet = NoSnippet
    /\ returned = NotReturned

(***************************************************************************)
(* The execution adapter on one operator descriptor.                       *)
(***************************************************************************)
Init ==
    /\ symbolic_parameter_list \in SymbolicParameterLists
    /\ args \in ArgLists
    /\ nvf_args = NotCalled
    /\ fd_inputs = <<>>
    /\ exec_args = NotCalled
    /\ GeneratorsIdle
    /\ SnippetsIdle
    /\ HarnessIdle

\* the next sample of the operator: a fresh FusionDefinition, nothing called yet
Sample ==
    /\ \E a \in ArgLists : args' = a
    /\ nvf_args' = NotCalled
    /\ fd_inputs' = <<>>
    /\ exec_args' = NotCalled
    /\ UNCHANGED <<symbolic_parameter_list, generatorVars, snippetVars, harnessVars>>

\* a fusion function translates the sample's arguments inside an open definition
Definition ==
    /\ nvf_args = NotCalled
    /\ LET r == parse_inputs_fusion_definition("defining", symbolic_parameter_list, args)
       IN  /\ nvf_args' = [status |-> r.status, value |-> r.nvf_args]
           /\ fd_inputs' = r.created
           /\ symbolic_parameter_list' = r.spl
    /\ UNCHANGED <<args, exec_args, generatorVars, snippetVars, harnessVars>>

\* a snippet selects the run-time arguments of the sample
Execution ==
    /\ exec_args = NotCalled
    /\ LET r == parse_args_fusion_execution(symbolic_parameter_list, args)
       IN  exec_args' = [status |-> r.status, value |-> r.value]
    /\ UNCHANGED <<symbolic_parameter_list, args, nvf_args, fd_inputs,
                   generatorVars, snippetVars, harnessVars>>

Next == Sample \/ Definition \/ Execution

Spec == Init /\ [][Next]_vars

(***************************************************************************)
(* The generators, drawn sample by sample.                                 *)
(***************************************************************************)
GenInit ==
    /\ AdapterIdle
    /\ SnippetsIdle
    /\ HarnessIdle
    /\ domain \in Domains
    /\ eu_yielded = 0
    /\ eu_sample = NoSample
    /\ vm_yielded = <<>>

\* next() on elementwise_unary_generator(op, dtype, requires_grad)
ElementwiseUnaryNext ==
    /\ eu_yielded < ElementwiseUnaryCount
    /\ eu_yielded' = eu_yielded + 1
    /\ eu_sample' = elementwise_unary_generator(domain, eu_yielded + 1)
    /\ UNCHANGED <<domain, vm_yielded, adapterVars, snippetVars, harnessVars>>

\* next() on var_mean_generator(op, dtype, requires_grad)
VarMeanNext ==
    /\ Len(vm_yielded) < VarMeanCount
    /\ vm_yielded' = Append(vm_yielded, var_mean_generator(Len(vm_yielded) + 1))
    /\ UNCHANGED <<domain, eu_yielded, eu_sample, adapterVars, snippetVars, harnessVars>>

GenNext == ElementwiseUnaryNext \/ VarMeanNext

SpecGen == GenInit /\ [][GenNext]_vars

(***************************************************************************)
(* The snippets, called on the samples of one operator descriptor.         *)
(***************************************************************************)
SnippetInit ==
    /\ symbolic_parameter_list \in SampleParameterLists
    /\ args = <<>>
    /\ nvf_args = NotCalled
    /\ fd_inputs = <<>>
    /\ exec_args = NotCalled
    /\ run = NoRun
    /\ GeneratorsIdle
    /\ HarnessIdle

\* snippet_errors on an error sample of the operator
SnippetErrors ==
    /\ \E a \in {x \in SampleArgs : WellFormed(symbolic_parameter_list, x)},
          ff \in {"opinfo_fusion_func", "input_fusion_func"},
          et \in ExpectedTypes, es \in ExpectedStrings, sut \in SutOutcomes :
             LET r == snippet_errors(ff, symbolic_parameter_list, a, et, es, sut)
             IN  /\ args' = a
                 /\ symbolic_parameter_list' = r.spl
                 /\ run' = [snippet |-> "snippet_errors",
                            exception_type |-> et, exception_str |-> es,
                            exception |-> r.exception, verdict |-> r.verdict]
    /\ UNCHANGED <<nvf_args, fd_inputs, exec_args, generatorVars, harnessVars>>

\* snippet_definition_op_in_schedule_error on a sample of the operator
SnippetDefinitionOpInScheduleError ==
    /\ \E a \in {x \in SampleArgs : WellFormed(symbolic_parameter_list, x)} :
             LET r == snippet_definition_op_in_schedule_error(symbolic_parameter_list, a)
             IN  /\ args' = a
                 /\ symbolic_parameter_list' = r.spl
                 /\ run' = [snippet |-> "snippet_definition_op_in_schedule_error",
                            exception_type |-> "None", exception_str |-> NoString,
                            exception |-> r.exception, verdict |-> r.verdict]
    /\ UNCHANGED <<nvf_args, fd_inputs, exec_args, generatorVars, harnessVars>>

SnippetNext == SnippetErrors \/ SnippetDefinitionOpInScheduleError

SpecSnippets == SnippetInit /\ [][SnippetNext]_vars

(***************************************************************************)
(* The test functions, called once per (operator, dtype) pair.             *)
(***************************************************************************)
HarnessInit ==
    /\ AdapterIdle
    /\ GeneratorsIdle
    /\ SnippetsIdle
    /\ HarnessIdle

\* pytest calls a test function with an operator it was parametrized with
CallTest ==
    /\ test = "none" \/ returned.done
    /\ \E t \in {"test_errors", "test_consistency", "test_definition_op_in_schedule_error"},
          o \in OpInfos, n \in 0..MaxSamples :
          /\ Selected(t, o)
          /\ test' = t
          /\ opinfo' = o
          /\ n_samples' = n
    /\ ran' = <<>>
    /\ results' = <<>>
    /\ snippet' = NoSnippet
    /\ returned' = NotReturned
    /\ UNCHANGED <<adapterVars, generatorVars, snippetVars>>

\* one pass through the body of the for loop of a test function: the next
\* sample is drawn and run, and the function returns its result unless None
LoopBody ==
    /\ ~returned.done
    /\ Len(ran) < n_samples
    /\ \E passes \in BOOLEAN :
          LET i == Len(ran) + 1
              sn == SnippetOf(test, opinfo)
              result == run_snippet(sn, i, passes)
          IN  /\ ran' = Append(ran, i)
              /\ snippet' = sn
              /\ results' = Append(results, result)
              /\ returned' = IF LoopReturns(result)
                             THEN [done |-> TRUE, value |-> result]
                             ELSE returned
    /\ UNCHANGED <<test, opinfo, n_samples, adapterVars, generatorVars, snippetVars>>

test_errors == test = "test_errors" /\ LoopBody

test_consistency == test = "test_consistency" /\ LoopBody

test_definition_op_in_schedule_error ==
    test = "test_definition_op_in_schedule_error" /\ LoopBody

\* the generator is exhausted: the function falls off its end and returns None
EndOfSamples ==
    /\ test # "none"
    /\ ~returned.done
    /\ Len(ran) = n_samples
    /\ returned' = [done |-> TRUE, value |-> NoResult]
    /\ UNCHANGED <<test, opinfo, n_samples, ran, results, snippet,
                   adapterVars, generatorVars, snippetVars>>

HarnessNext ==
    \/ CallTest
    \/ test_errors
    \/ test_consistency
    \/ test_definition_op_in_schedule_error
    \/ EndOfSamples

SpecHarness == HarnessInit /\ [][HarnessNext]_vars

\* C8: var_mean_generator yields one sample per (correction, reduction
\* sample) pair, 2 x 6 = 12 in all, the correction-0 group first and the
\* reduction_generator order kept inside each group; each carries the base
\* sample's tensor and keepdim flag, the correction, and the base sample's
\* axes when it gave some, else all dimensions 0..ndim-1.
C8_VarMeanSamples ==
    /\ Len(vm_yielded) <= 12
    /\ ~(ENABLED VarMeanNext) => Len(vm_yielded) = 12
    /\ \A c \in {0, 1} : \A j \in 1..6 :
          LET k == 6 * c + j
              base == reduction_cases[j]
          IN  k <= Len(vm_yielded) =>
                /\ vm_yielded[k].a = ReductionTensor(j)
                /\ vm_yielded[k].keepdim = base.keepdim
                /\ vm_yielded[k].correction = c
                /\ vm_yielded[k].dim =
                      IF base.dim = NoDim
                      THEN [i \in 1..Len(base.shape) |-> i - 1]
                      ELSE base.dim.axes

\* all twelve samples drawn; the second one reduces over every dimension
C8_Witness ==
    /\ Len(vm_yielded) = 12
    /\ vm_yielded[2].dim = <<0>>
    /\ vm_yielded[11].dim = <<0, 1>>

\* C9 as stated: whatever the domain (an absent bound included), the range
\* passed to the tensor factory is the domain intersected with [-9, 9]: a
\* lower bound of at least -9 and an upper bound of at most 9.
C9_AsStated ==
    eu_yielded > 0 =>
        /\ eu_sample.tensor.low.is_num /\ eu_sample.tensor.low.v >= -9
        /\ eu_sample.tensor.high.is_num /\ eu_sample.tensor.high.v <= 9
        /\ domain.low.is_num => eu_sample.tensor.low.v >= domain.low.v
        /\ domain.high.is_num => eu_sample.tensor.high.v <= domain.high.v

\* C9 (amended): a bound the domain has is passed as max(-9, low) / min(9,
\* high), so never below -9 / above 9 and never outside the domain; a bound
\* the domain lacks is passed as absent (None), not as -9 or 9.
C9_ClampedWhenPresent ==
    eu_yielded > 0 =>
        /\ domain.low.is_num =>
              /\ eu_sample.tensor.low.is_num
              /\ eu_sample.tensor.low.v >= -9
              /\ eu_sample.tensor.low.v >= domain.low.v
              /\ eu_sample.tensor.low.v \in {-9, domain.low.v}
        /\ domain.high.is_num =>
              /\ eu_sample.tensor.high.is_num
              /\ eu_sample.tensor.high.v <= 9
              /\ eu_sample.tensor.high.v <= domain.high.v
              /\ eu_sample.tensor.high.v \in {9, domain.high.v}
        /\ ~domain.low.is_num => ~eu_sample.tensor.low.is_num
        /\ ~domain.high.is_num => ~eu_sample.tensor.high.is_num

\* a strided sample of an operator whose domain is [-10, unbounded)
C9_Witness ==
    /\ eu_yielded = ElementwiseUnaryCount
    /\ domain = [low |-> Num(-10), high |-> NoNumber]
    /\ eu_sample.tensor.low = Num(-9)
    /\ ~eu_sample.tensor.high.is_num
    /\ eu_sample.view.offset = 3

(***************************************************************************)
(* Properties of the execution adapter.                                    *)
(***************************************************************************)
\* a step in which parse_inputs_fusion_definition / parse_args_fusion_execution
\* is called on the sample at hand
DefStep == nvf_args.status = "NotCalled" /\ nvf_args'.status # "NotCalled"
ExecStep == exec_args.status = "NotCalled" /\ exec_args'.status # "NotCalled"

\* argument i is marked symbolic by list spl (an unset list marks every one)
MarkedSymbolic(spl, i) == spl = None \/ (i <= Len(spl.items) /\ spl.items[i])
MarkedConcrete(spl, i) == spl # None /\ i <= Len(spl.items) /\ ~spl.items[i]

\* the sub-sequence of a at the indices spl marks symbolic, in order
RECURSIVE SymbolicSubSeq(_, _, _)
SymbolicSubSeq(spl, a, n) ==
    IF n = 0 THEN <<>>
    ELSE SymbolicSubSeq(spl, a, n - 1)
             \o (IF MarkedSymbolic(spl, n) THEN <<a[n]>> ELSE <<>>)

\* C1: once parse_inputs_fusion_definition has succeeded on the sample's
\* arguments (empty list and unset symbolic_parameter_list included),
\* parse_args_fusion_execution on the same arguments does not raise and
\* returns exactly the symbolic-marked arguments, in order, as many as the
\* placeholders the definition created.
C1_ExecutionFollowsDefinition ==
    [][(ExecStep /\ nvf_args.status = "ok") =>
          /\ exec_args'.status = "ok"
          /\ exec_args'.value = SymbolicSubSeq(symbolic_parameter_list, args, Len(args))
          /\ Len(exec_args'.value) = Len(fd_inputs)]_vars

\* C2: parse_inputs_fusion_definition returns one entry per argument: a
\* tensor / vector / scalar placeholder for a symbolic-marked tensor /
\* list-or-tuple / other value, the raw argument for a concrete-marked one;
\* a concrete-marked tensor fails an assertion and nothing is returned.
C2_AdaptedArguments ==
    /\ nvf_args.status = "ok" =>
          /\ Len(nvf_args.value) = Len(args)
          /\ \A i \in 1..Len(args) :
                /\ nvf_args.value[i].arg = args[i]
                /\ nvf_args.value[i].op =
                      IF MarkedConcrete(symbolic_parameter_list, i) THEN "concrete"
                      ELSE IF args[i] \in Tensors THEN "from_pytorch"
                      ELSE IF args[i] \in Lists \cup Tuples THEN "define_vector"
                      ELSE "define_scalar"
    /\ (/\ nvf_args.status # "NotCalled"
        /\ \E i \in 1..Len(args) :
              MarkedConcrete(symbolic_parameter_list, i) /\ args[i] \in Tensors)
          => nvf_args.status = "AssertionError" /\ nvf_args.value = <<>>

\* a definition that adapted a symbolic tuple and a concrete scalar
C2_Witness ==
    /\ nvf_args.status = "ok"
    /\ Len(nvf_args.value) = 2
    /\ nvf_args.value[1].op = "define_vector" /\ nvf_args.value[1].arg \in Tuples
    /\ nvf_args.value[2].op = "concrete"

\* C3: with symbolic_parameter_list unset both adapter functions treat every
\* argument as symbolic; parse_args_fusion_execution returns all of args
\* whether or not parse_inputs_fusion_definition ran before it.
C3_UnsetListIsAllSymbolic ==
    [][/\ (ExecStep /\ symbolic_parameter_list = None) =>
             exec_args'.status = "ok" /\ exec_args'.value = args
       /\ (DefStep /\ symbolic_parameter_list = None) =>
             /\ nvf_args'.status = "ok"
             /\ Len(nvf_args'.value) = Len(args)
             /\ \A i \in 1..Len(args) : nvf_args'.value[i].op # "concrete"]_vars

\* what every call of parse_inputs_fusion_definition does to the descriptor
DescriptorStep ==
    /\ symbolic_parameter_list # None => symbolic_parameter_list' = symbolic_parameter_list
    /\ (DefStep /\ args = <<>>) => symbolic_parameter_list' = symbolic_parameter_list
    /\ (DefStep /\ args # <<>> /\ symbolic_parameter_list = None) =>
          symbolic_parameter_list' = ListOf([i \in 1..Len(args) |-> TRUE])

\* the call fails the length assertion before creating a placeholder
LengthAssertionFails ==
    /\ nvf_args'.status = "AssertionError"
    /\ nvf_args'.value = <<>>
    /\ fd_inputs' = <<>>

\* C10 as stated: every call whose argument count differs from the length of
\* a set list fails the length assertion.
C10_AsStated ==
    [][/\ DescriptorStep
       /\ (/\ DefStep
           /\ symbolic_parameter_list # None
           /\ Len(symbolic_parameter_list.items) # Len(args))
             => LengthAssertionFails]_vars

\* C10 (amended): an empty call leaves the list alone, the first non-empty call
\* on an unset list sets it to all-True of its argument count, a set list is
\* never modified, and every call with a NON-EMPTY argument list whose count
\* differs from the length of a set list fails the length assertion before
\* creating a placeholder.
C10_ListSetOnceAndEnforced ==
    [][/\ DescriptorStep
       /\ (/\ DefStep
           /\ symbolic_parameter_list # None
           /\ Len(args) > 0
           /\ Len(symbolic_parameter_list.items) # Len(args))
             => LengthAssertionFails]_vars

\* a two-argument sample rejected by a descriptor whose list has one entry
C10_Witness ==
    /\ nvf_args.status = "AssertionError"
    /\ fd_inputs = <<>>
    /\ Len(args) = 2
    /\ symbolic_parameter_list = ListOf(<<TRUE>>)

(***************************************************************************)
(* Properties of the snippets and of the test functions.                   *)
(***************************************************************************)
\* C4: snippet_errors passes exactly when an exception was raised inside its
\* try block, the exception's class is the expected class itself (not a
\* subclass of it) and, when a substring is expected, the message contains
\* it; with no exception it fails with "Expected an exception".
C4_SnippetErrorsVerdict ==
    run.snippet = "snippet_errors" =>
        /\ run.verdict = "passed" <=>
              /\ run.exception.raised
              /\ run.exception.type = run.exception_type
              /\ run.exception_str.is_str =>
                    \E i \in 0..Len(run.exception.msg) :
                        /\ i + Len(run.exception_str.words) <= Len(run.exception.msg)
                        /\ \A j \in 1..Len(run.exception_str.words) :
                              run.exception.msg[i + j] = run.exception_str.words[j]
        /\ ~run.exception.raised <=> run.verdict = "Expected an exception"

\* an error sample that passes: a TypeError whose message holds the substring
C4_Witness ==
    /\ run.snippet = "snippet_errors"
    /\ run.verdict = "passed"
    /\ run.exception = Raise("TypeError", IncompatibleArgumentsMessage)
    /\ run.exception_str = Str(<<"incompatible", "function", "arguments.">>)

\* C5: a test function runs the samples in generator order, one at a time;
\* it returns the first result that is not None and runs no sample after
\* it; when every result is None each sample was run once and it returns
\* None.
C5_FailFastLoop ==
    /\ Len(ran) <= n_samples
    /\ Len(results) = Len(ran)
    /\ \A i \in 1..Len(ran) : ran[i] = i
    /\ \A i \in 1..Len(results) : i < Len(results) => results[i].is_none
    /\ returned.done =>
          IF \E i \in 1..Len(results) : ~results[i].is_none
          THEN /\ returned.value = results[Len(results)]
               /\ returned.value = Failure(Len(ran))
          ELSE /\ returned.value = NoResult
               /\ ran = [i \in 1..n_samples |-> i]

\* a test that stopped at its second sample of three
C5_Witness ==
    /\ returned.done
    /\ n_samples = 3
    /\ ran = <<1, 2>>
    /\ returned.value = Failure(2)

\* C6: with a system under test that rejects every definition-time operation
\* on a completed definition, snippet_definition_op_in_schedule_error passes
\* for every operator and sample: the exception it catches is that rejection.
C6_ScheduleErrorAlwaysPasses ==
    run.snippet = "snippet_definition_op_in_schedule_error" =>
        /\ run.verdict = "passed"
        /\ run.exception = Raise("RuntimeError", CompletedDefinitionMessage)

\* C7: for an operator test_consistency is parametrized with,
\* snippet_consistency gives the torch check for the Pytorch tag and the jax
\* check for the Jax tag, bound to input_fusion_func for a fusion-input op
\* and to opinfo_fusion_func otherwise; run_snippet is never handed None.
C7_ConsistencySnippetIsRunnable ==
    (test = "test_consistency" /\ Len(ran) > 0) =>
        /\ snippet # NoSnippet
        /\ snippet.fn \in {"snippet_torch_consistency", "snippet_jax_consistency"}
        /\ opinfo.refernce_fn_type = "Pytorch" => snippet.fn = "snippet_torch_consistency"
        /\ opinfo.refernce_fn_type = "Jax" => snippet.fn = "snippet_jax_consistency"
        /\ snippet.fusion_func =
              IF opinfo.is_fusion_input_op THEN "input_fusion_func"
              ELSE "opinfo_fusion_func"


====
